---------------------------- MODULE Spec2Model ----------------------------
(***************************************************************************)
(* Model of the Gauntlet of Chaos scoreboard bot.  Two variants of the     *)
(* program exist: src/old.py (SheetManager + role checks + rounds +        *)
(* anonymous submissions) and src/script.py (single class, no role         *)
(* checks).  The variable `variant` says which one a behaviour runs.       *)
(*                                                                         *)
(* Python text is modelled as a sequence of one-character strings, so that *)
(* strip(), lower(), `in`, isdigit(), split('-') and int() are computed    *)
(* and not assumed.                                                        *)
(***************************************************************************)
EXTENDS Integers, Sequences, FiniteSets, TLC

VARIABLES
    variant,          \* "old" (src/old.py) or "script" (src/script.py)
    rows,             \* parser: the worksheet rows, get_all_values()
    pos,              \* parser: index of the next row the loop takes
    current_section,  \* parser: local current_section
    data,             \* parser: local data (the roster being built / returned)
    ppc,              \* parser: "init" | "parsing" | "returned" | "raised"
    all_players,      \* composer: all_players after the sort
    render,           \* composer: the cards drawn, in order
    cpc,              \* composer: "idle" | "done"
    roll_range,       \* roll: the roll-range text of the player rolled for
    roll_bounds,      \* roll: <<min_roll, max_roll>>
    rpc,              \* roll: "idle" | "ranged"
    roll_team,        \* roll: the team argument of /roll (given or not)
    roll_name,        \* roll: interaction.user.display_name
    roll_reply,       \* roll: what /roll sent
    ACTIVE_SUBMISSIONS, \* bot: the global dict user id -> message (old.py)
    message_id,       \* bot: in-memory target message id, 0 for None
    channel_id,       \* bot: in-memory target channel id, 0 for None
    current_sheet,    \* bot: round number of the active worksheet
    config,           \* the Config worksheet: the persisted values
    revision,         \* the round worksheets: how often each was edited so far
    channels,         \* the chat: the channels that exist
    messages,         \* the chat: the scoreboard messages that exist
    posted,           \* the chat: number of scoreboard messages ever sent
    edits,            \* the chat: number of edits of scoreboard messages
    tasks,            \* the command invocations, in order of arrival
    started           \* number of command invocations so far

parseVars == <<rows, pos, current_section, data, ppc>>
composeVars == <<all_players, render, cpc>>
rollVars == <<roll_range, roll_bounds, rpc, roll_team, roll_name, roll_reply>>

botVars == <<ACTIVE_SUBMISSIONS, message_id, channel_id, current_sheet, config,
             revision, channels, messages, posted, edits, tasks, started>>

\* What the update and round commands work on.
boardVars == <<message_id, channel_id, current_sheet, config, revision, channels,
               messages, posted, edits>>

vars == <<variant, parseVars, composeVars, rollVars, botVars>>

Variants == {"old", "script"}

-----------------------------------------------------------------------------
(* Bounds of the model *)

\* Longest worksheet of arbitrary rows handed to the parser.
MaxRows == 3

\* Most players picked freely for a roster the composer is run on.
MaxPicked == 2

\* Most ranking rows of a roster the composer is run on.
MaxRanked == 2

\* Longest roll-range text of arbitrary characters.
MaxRollLen == 3

\* Most command invocations in one behaviour.
MaxCommands == 3

\* How many of them may be update or round commands.
MaxUpdates == 2

\* How often the round worksheets are edited, all together.
MaxEdits == 1

\* Most players of a roster the roll command is run on.
MaxRollers == 2

\* Most filler players added to such a roster (MaxRecords and more, so that
\* the cut at MaxRecords happens).
MaxFill == 16

-----------------------------------------------------------------------------
(* Python str operations on sequences of characters *)

UpperChars == <<"A","B","C","D","E","F","G","H","I","J","K","L","M",
                "N","O","P","Q","R","S","T","U","V","W","X","Y","Z">>
LowerChars == <<"a","b","c","d","e","f","g","h","i","j","k","l","m",
                "n","o","p","q","r","s","t","u","v","w","x","y","z">>

\* One character of str.lower().
LowerChar(c) ==
    IF \E i \in 1..Len(UpperChars) : UpperChars[i] = c
    THEN LowerChars[CHOOSE i \in 1..Len(UpperChars) : UpperChars[i] = c]
    ELSE c

\* str.lower()
Lower(s) == [i \in 1..Len(s) |-> LowerChar(s[i])]

\* Characters str.strip() removes.
Whitespace == {" "}

\* str.strip(): drop leading and trailing whitespace.
Strip(s) ==
    LET idx == {i \in 1..Len(s) : s[i] \notin Whitespace}
    IN  IF idx = {} THEN <<>>
        ELSE LET lo == CHOOSE i \in idx : \A j \in idx : i <= j
                 hi == CHOOSE i \in idx : \A j \in idx : i >= j
             IN  SubSeq(s, lo, hi)

\* Python `sub in s` on strings.
Contains(sub, s) ==
    \E i \in 0..(Len(s) - Len(sub)) : SubSeq(s, i + 1, i + Len(sub)) = sub

\* Characters int() reads as decimal digits, with their values.
DecimalChars == {"0","1","2","3","4","5","6","7","8","9"}
DigitValue(c) ==
    CASE c = "0" -> 0 [] c = "1" -> 1 [] c = "2" -> 2 [] c = "3" -> 3
      [] c = "4" -> 4 [] c = "5" -> 5 [] c = "6" -> 6 [] c = "7" -> 7
      [] c = "8" -> 8 [] c = "9" -> 9

\* Characters for which str.isdigit() is true: the decimal digits and the
\* other Unicode digit characters (superscript two, category No), which
\* int() does not accept.
IsDigitChars == DecimalChars \cup {"SUPERSCRIPT_TWO"}

\* str.isdigit(): non-empty and every character a digit character.
IsDigit(s) == Len(s) > 0 /\ \A i \in 1..Len(s) : s[i] \in IsDigitChars

RECURSIVE DecimalValue(_)
DecimalValue(s) ==
    IF Len(s) = 0 THEN 0
    ELSE 10 * DecimalValue(SubSeq(s, 1, Len(s) - 1)) + DigitValue(s[Len(s)])

\* int(s): surrounding whitespace is ignored, an optional sign, then decimal
\* digits only; anything else raises ValueError (ok = FALSE).  (The model's
\* texts hold no underscore, the one other character int() accepts.)
PyInt(s) ==
    LET t == Strip(s)
        neg == Len(t) > 0 /\ t[1] = "-"
        body == IF Len(t) > 0 /\ t[1] \in {"-", "+"} THEN SubSeq(t, 2, Len(t)) ELSE t
    IN  IF Len(body) > 0 /\ \A i \in 1..Len(body) : body[i] \in DecimalChars
        THEN [ok |-> TRUE, val |-> IF neg THEN 0 - DecimalValue(body) ELSE DecimalValue(body)]
        ELSE [ok |-> FALSE, val |-> 0]

-----------------------------------------------------------------------------
(* Text constants of the program *)

RED == <<"r","e","d">>
BLUE == <<"b","l","u","e">>
GREEN == <<"g","r","e","e","n">>
YELLOW == <<"y","e","l","l","o","w">>
LEADERBOARD == <<"l","e","a","d","e","r","b","o","a","r","d">>
TEAM == <<"t","e","a","m">>
POSITION == <<"p","o","s","i","t","i","o","n">>
NAME == <<"n","a","m","e">>

\* TEAMS = ['red', 'blue', 'green', 'yellow']
TEAMS == <<RED, BLUE, GREEN, YELLOW>>

InTEAMS(team) == \E i \in 1..Len(TEAMS) : TEAMS[i] = team

\* f"{team}_team": the key of data a team's list is kept under.
TeamKey(team) ==
    CASE team = RED -> "red_team"
      [] team = BLUE -> "blue_team"
      [] team = GREEN -> "green_team"
      [] team = YELLOW -> "yellow_team"

TeamKeys == <<"red_team", "blue_team", "green_team", "yellow_team">>

\* The dict both parsers start from.
EmptyData ==
    [red_team |-> <<>>, blue_team |-> <<>>, green_team |-> <<>>,
     yellow_team |-> <<>>, leaderboard |-> <<>>]


-----------------------------------------------------------------------------
(* The parser: SheetManager.parse_data (old) and                           *)
(* BattleStatsBot.parse_sheet_data (script), one loop iteration at a time  *)

\* row[i] of Python (0-based) is row[i + 1] here.
Cell(row, i) == row[i + 1]

\* first_cell = row[0].strip().lower()
FirstCell(row) == Lower(Strip(Cell(row, 0)))

\* MarkerOf with the pair test written with `or`: one team name is enough.
MarkerOfEitherTeam(first_cell) ==
    IF Contains(RED, first_cell) \/ Contains(BLUE, first_cell) THEN "red_blue"
    ELSE IF Contains(GREEN, first_cell) \/ Contains(YELLOW, first_cell) THEN "green_yellow"
    ELSE IF Contains(LEADERBOARD, first_cell) THEN "leaderboard"
    ELSE ""

\* MarkerOf with the header test applied first: a first cell that holds a
\* column label marks no section.
MarkerUnlessHeader(first_cell) ==
    IF Contains(TEAM, first_cell) \/ Contains(POSITION, first_cell) \/ Contains(NAME, first_cell)
    THEN ""
    ELSE IF Contains(RED, first_cell) /\ Contains(BLUE, first_cell) THEN "red_blue"
    ELSE IF Contains(GREEN, first_cell) /\ Contains(YELLOW, first_cell) THEN "green_yellow"
    ELSE IF Contains(LEADERBOARD, first_cell) THEN "leaderboard"
    ELSE ""

\* The section a marker row switches to, "" when the row is no marker:
\* the if / elif / elif chain on first_cell.
MarkerOf(first_cell) ==
    IF Contains(RED, first_cell) /\ Contains(BLUE, first_cell) THEN "red_blue"
    ELSE IF Contains(GREEN, first_cell) /\ Contains(YELLOW, first_cell) THEN "green_yellow"
    ELSE IF Contains(LEADERBOARD, first_cell) THEN "leaderboard"
    ELSE ""

\* any(x in first_cell for x in ["team", "position", "name"])
IsHeader(first_cell) ==
    \/ Contains(TEAM, first_cell)
    \/ Contains(POSITION, first_cell)
    \/ Contains(NAME, first_cell)

\* The player_data dict built from a row of at least 3 cells.
PlayerData(row) ==
    [Name |-> Strip(Cell(row, 0)),
     Team |-> Strip(Lower(Cell(row, 1))),
     Roll |-> Strip(Cell(row, 2)),
     Chaos_coins |-> IF Len(row) > 3 /\ Strip(Cell(row, 3)) # <<>>
                     THEN Strip(Cell(row, 3)) ELSE <<"0">>,
     Status |-> IF Len(row) > 4 /\ Cell(row, 4) # <<>>
                THEN Strip(Cell(row, 4)) ELSE <<>>]

\* Whether building the leaderboard entry of a row raises: int(row[3]) is
\* evaluated when row[3].strip().isdigit() holds, and raises ValueError on a
\* digit character that is no decimal digit.
PointsRaises(row) == IsDigit(Strip(Cell(row, 3))) /\ ~PyInt(Cell(row, 3)).ok

\* The leaderboard entry built from a row of at least 4 cells.
LeaderboardEntry(row) ==
    [Position |-> Strip(Cell(row, 0)),
     Team |-> Strip(Lower(Cell(row, 1))),
     Combatant |-> Strip(Cell(row, 2)),
     Points |-> IF IsDigit(Strip(Cell(row, 3))) THEN PyInt(Cell(row, 3)).val ELSE 0]

\* The team lists a player row may be appended to in the given section.
\* old.py: any of TEAMS, whatever the section (line 134).
TeamAcceptedOld(sec, team) == InTEAMS(team)

\* script.py: only the two teams of the section's pair (lines 275-278, 290-293).
TeamAcceptedScript(sec, team) ==
    \/ sec = "red_blue" /\ team \in {RED, BLUE}
    \/ sec = "green_yellow" /\ team \in {GREEN, YELLOW}

TeamAccepted(v, sec, team) ==
    IF v = "old" THEN TeamAcceptedOld(sec, team) ELSE TeamAcceptedScript(sec, team)

\* One iteration of the loop body: the section and data after the row, and
\* whether the iteration raised.
ParseRow(v, sec, d, row) ==
    IF Len(row) = 0 THEN [section |-> sec, data |-> d, raised |-> FALSE]
    ELSE
    LET first_cell == FirstCell(row) IN
    IF MarkerOf(first_cell) # ""
    THEN [section |-> MarkerOf(first_cell), data |-> d, raised |-> FALSE]
    ELSE IF IsHeader(first_cell)
    THEN [section |-> sec, data |-> d, raised |-> FALSE]
    ELSE IF sec \in {"red_blue", "green_yellow"} /\ Len(row) >= 3
    THEN LET player_data == PlayerData(row) IN
         IF TeamAccepted(v, sec, player_data.Team)
         THEN [section |-> sec,
               data |-> [d EXCEPT ![TeamKey(player_data.Team)] = Append(@, player_data)],
               raised |-> FALSE]
         ELSE [section |-> sec, data |-> d, raised |-> FALSE]
    ELSE IF sec = "leaderboard" /\ Len(row) >= 4
    THEN IF PointsRaises(row)
         THEN [section |-> sec, data |-> d, raised |-> TRUE]
         ELSE [section |-> sec,
               data |-> [d EXCEPT !.leaderboard = Append(@, LeaderboardEntry(row))],
               raised |-> FALSE]
    ELSE [section |-> sec, data |-> d, raised |-> FALSE]

\* The loop takes the next row.  An exception leaves parse_data (old.py has
\* no handler: it reaches the caller); script.py catches it and returns the
\* empty roster (lines 304-313).
ParseRowStep ==
    /\ ppc = "parsing"
    /\ pos <= Len(rows)
    /\ LET r == ParseRow(variant, current_section, data, rows[pos]) IN
       IF r.raised
       THEN /\ current_section' = r.section
            /\ pos' = pos
            /\ IF variant = "old"
               THEN data' = data /\ ppc' = "raised"
               ELSE data' = EmptyData /\ ppc' = "returned"
       ELSE /\ current_section' = r.section
            /\ data' = r.data
            /\ pos' = pos + 1
            /\ ppc' = "parsing"
    /\ UNCHANGED <<variant, rows, composeVars, rollVars, botVars>>

\* The loop is over: return data.
ParseReturn ==
    /\ ppc = "parsing"
    /\ pos > Len(rows)
    /\ ppc' = "returned"
    /\ UNCHANGED <<variant, rows, pos, current_section, data, composeVars, rollVars, botVars>>

\* The whole loop from row i on: the state parse ends in.  `raised` says the
\* call left through an exception (old.py) and `data` is what the caller gets
\* otherwise (script.py's handler returns the empty roster).
RECURSIVE ParseFrom(_, _, _, _, _)
ParseFrom(v, rs, i, sec, d) ==
    IF i > Len(rs) THEN [section |-> sec, data |-> d, raised |-> FALSE, pos |-> i]
    ELSE LET r == ParseRow(v, sec, d, rs[i]) IN
         IF r.raised
         THEN IF v = "old"
              THEN [section |-> r.section, data |-> d, raised |-> TRUE, pos |-> i]
              ELSE [section |-> r.section, data |-> EmptyData, raised |-> FALSE, pos |-> i]
         ELSE ParseFrom(v, rs, i + 1, r.section, r.data)

\* parse_data() / parse_sheet_data() as one call.
ParseAll(v, rs) == ParseFrom(v, rs, 1, "none", EmptyData)

-----------------------------------------------------------------------------
(* The composer: the first half of generate_scoreboard (old) and           *)
(* generate_scoreboard_image (script), up to the cards drawn               *)

\* all_players[:16]
MaxRecords == 16

\* The 'points' a leaderboard entry is stored with in the lookup dict.
\* old.py keeps p.get('Points', 0); script.py re-checks the text of the
\* number: int(Points) if str(Points).isdigit() else 0 (a minus sign is no
\* digit).
LookupPoints(v, p) ==
    IF v = "old" THEN p.Points
    ELSE IF p.Points >= 0 THEN p.Points ELSE 0

\* LookupIndex keeping the first entry of a key instead of the last.
LookupIndexFirst(lb, n, key) ==
    LET hits == {k \in 1..n : Lower(lb[k].Combatant) = key} IN
    IF hits = {} THEN 0 ELSE CHOOSE k \in hits : \A j \in hits : k <= j

\* Index of the entry the dict holds under `key` after all assignments
\* leaderboard[p['Combatant'].lower()] = ... in row order (a later
\* assignment replaces an earlier one), 0 when the key is absent.
RECURSIVE LookupIndex(_, _, _)
LookupIndex(lb, n, key) ==
    IF n = 0 THEN 0
    ELSE IF Lower(lb[n].Combatant) = key THEN n
    ELSE LookupIndex(lb, n - 1, key)

\* PointsOf with the player's name looked up as written, not lower-cased.
PointsOfExactCase(v, lb, name) ==
    LET k == LookupIndex(lb, Len(lb), name) IN
    IF k = 0 THEN 0 ELSE LookupPoints(v, lb[k])

\* leaderboard.get(player.get('Name', '').lower(), {}).get('points', 0)
PointsOf(v, lb, name) ==
    LET k == LookupIndex(lb, Len(lb), Lower(name)) IN
    IF k = 0 THEN 0 ELSE LookupPoints(v, lb[k])

\* The player_data dict of one roster player.
ComposePlayer(v, lb, player) ==
    [name |-> player.Name,
     team |-> Lower(player.Team),
     roll |-> player.Roll,
     status |-> player.Status,
     points |-> PointsOf(v, lb, player.Name),
     Chaos_coins |-> player.Chaos_coins]

\* all_players before the sort: for team in TEAMS, for player in that list.
Combine(v, d) ==
    LET one(k) == [i \in 1..Len(d[k]) |-> ComposePlayer(v, d.leaderboard, d[k][i])]
    IN  one(TeamKeys[1]) \o one(TeamKeys[2]) \o one(TeamKeys[3]) \o one(TeamKeys[4])

\* InsertDesc with the comparison strict: an element goes in front of the
\* elements of equal points placed before it (an unstable descending sort).
RECURSIVE InsertDescTiesFirst(_, _, _)
InsertDescTiesFirst(placed, players, j) ==
    IF placed = <<>> THEN <<j>>
    ELSE IF players[Head(placed)].points > players[j].points
         THEN <<Head(placed)>> \o InsertDescTiesFirst(Tail(placed), players, j)
         ELSE <<j>> \o placed

\* Where list.sort(key=points, reverse=True) puts an element that comes after
\* the elements already placed: behind every element of points >= its own.
RECURSIVE InsertDesc(_, _, _)
InsertDesc(placed, players, j) ==
    IF placed = <<>> THEN <<j>>
    ELSE IF players[Head(placed)].points >= players[j].points
         THEN <<Head(placed)>> \o InsertDesc(Tail(placed), players, j)
         ELSE <<j>> \o placed

\* The order the sort leaves the elements in, as indices into the unsorted
\* list: elements are placed one by one in their original order.
RECURSIVE SortOrder(_, _)
SortOrder(players, n) ==
    IF n = 0 THEN <<>>
    ELSE InsertDesc(SortOrder(players, n - 1), players, n)

\* all_players.sort(key=lambda x: x['points'], reverse=True)
SortedPlayers(players) ==
    LET ord == SortOrder(players, Len(players)) IN
    [i \in 1..Len(players) |-> players[ord[i]]]

\* Cards without the [:16] slice.
CardsUncut(sorted) ==
    [i \in 1..Len(sorted) |-> [position |-> i, player |-> sorted[i]]]

\* The cards drawn: enumerate(all_players[:16]), position i + 1.
Cards(sorted) ==
    LET n == IF Len(sorted) < MaxRecords THEN Len(sorted) ELSE MaxRecords IN
    [i \in 1..n |-> [position |-> i, player |-> sorted[i]]]

\* generate_scoreboard(data) on the roster the parser returned.
Compose ==
    /\ ppc = "returned"
    /\ cpc = "idle"
    /\ all_players' = SortedPlayers(Combine(variant, data))
    /\ render' = Cards(all_players')
    /\ cpc' = "done"
    /\ UNCHANGED <<variant, parseVars, rollVars, botVars>>

-----------------------------------------------------------------------------
(* Roll bounds: the try / except around map(int, roll.split('-')) in        *)
(* roll_command                                                            *)

\* DEFAULT_ROLL_RANGE = (100, 200)
DEFAULT_ROLL_RANGE == <<100, 200>>

\* str.split('-'): the pieces between the '-' characters ("" splits into
\* one empty piece).
RECURSIVE Split(_)
Split(s) ==
    IF \A i \in 1..Len(s) : s[i] # "-" THEN <<s>>
    ELSE LET k == CHOOSE i \in 1..Len(s) :
                      s[i] = "-" /\ \A j \in 1..(i - 1) : s[j] # "-"
         IN  <<SubSeq(s, 1, k - 1)>> \o Split(SubSeq(s, k + 1, Len(s)))

\* RollBounds taking the first two pieces and ignoring further ones.
RollBoundsFirstTwo(text) ==
    LET parts == Split(text) IN
    IF Len(parts) >= 2 /\ PyInt(parts[1]).ok /\ PyInt(parts[2]).ok
    THEN <<PyInt(parts[1]).val, PyInt(parts[2]).val>>
    ELSE DEFAULT_ROLL_RANGE

\* try: min_roll, max_roll = map(int, text.split('-'))
\* except: min_roll, max_roll = DEFAULT_ROLL_RANGE
\* The unpacking raises unless there are exactly two pieces, int() unless a
\* piece is a number.
RollBounds(text) ==
    LET parts == Split(text) IN
    IF Len(parts) = 2 /\ PyInt(parts[1]).ok /\ PyInt(parts[2]).ok
    THEN <<PyInt(parts[1]).val, PyInt(parts[2]).val>>
    ELSE DEFAULT_ROLL_RANGE

\* roll_command reads the bounds of the player's roll text.
ParseRollRange ==
    /\ rpc = "idle"
    /\ roll_bounds' = RollBounds(roll_range)
    /\ rpc' = "ranged"
    /\ UNCHANGED <<variant, parseVars, composeVars, roll_range, roll_team, roll_name,
                   roll_reply, botVars>>

-----------------------------------------------------------------------------
(* The roll command *)

\* team: str = None, and a team argument given.
NoTeam == [given |-> FALSE, text |-> <<>>]
TeamArg(text) == [given |-> TRUE, text |-> text]

\* What /roll sent: nothing yet, or one followup message.  `results` holds
\* one entry per line of a team roll, or the one entry of a single roll.
NoReply == [kind |-> "none", team |-> <<>>, results |-> <<>>]
Reply(kind, team, results) == [kind |-> kind, team |-> team, results |-> results]

\* The values random.randint(a, b) is drawn from here: the two ends and the
\* middle of a..b.  randint raises ValueError when a > b, so there is none.
RandInt(a, b) == IF a > b THEN {} ELSE {a, (a + b) \div 2, b}

\* The line of one player: name, bounds and the number rolled.
RollLine(player, result) ==
    [name |-> player.Name, min |-> RollBounds(player.Roll)[1],
     max |-> RollBounds(player.Roll)[2], result |-> result]

\* The draws for the players of a list, one randint per player in order;
\* none when a randint raises.
Draws(players) ==
    LET all == UNION {RandInt(RollBounds(players[i].Roll)[1],
                              RollBounds(players[i].Roll)[2]) : i \in 1..Len(players)}
    IN  IF \E i \in 1..Len(players) :
              RandInt(RollBounds(players[i].Roll)[1], RollBounds(players[i].Roll)[2]) = {}
        THEN {}
        ELSE {f \in [1..Len(players) -> all] :
                 \A i \in 1..Len(players) :
                    f[i] \in RandInt(RollBounds(players[i].Roll)[1],
                                     RollBounds(players[i].Roll)[2])}

\* The team branch of roll_command: what it may send for the team text.
\* A randint that raises takes the handler to its outer except, which sends
\* "Something went wrong with the roll".
TeamRoll(d, text) ==
    LET team == Lower(text) IN
    IF ~InTEAMS(team) THEN {Reply("invalid_team", team, <<>>)}
    ELSE LET team_players == d[TeamKey(team)] IN
         IF team_players = <<>> THEN {Reply("no_players", team, <<>>)}
         ELSE IF Draws(team_players) = {} THEN {Reply("failed", <<>>, <<>>)}
         ELSE {Reply("team_results", team,
                     [i \in 1..Len(team_players) |-> RollLine(team_players[i], f[i])]) :
                  f \in Draws(team_players)}

\* The roster players in the order the single roll scans them: teams red,
\* blue, green, yellow, rows in order within a team.
Scanned(d) == d.red_team \o d.blue_team \o d.green_team \o d.yellow_team

\* The scan taking the last match.
LastMatch(players, player_name) ==
    LET hits == {i \in 1..Len(players) :
                    Contains(Lower(players[i].Name), Lower(player_name))}
    IN  IF hits = {} THEN 0 ELSE CHOOSE i \in hits : \A j \in hits : j <= i

\* Index of the first scanned player whose lower-cased Name is in the
\* lower-cased display name, 0 when there is none.
FirstMatch(players, player_name) ==
    LET hits == {i \in 1..Len(players) :
                    Contains(Lower(players[i].Name), Lower(player_name))}
    IN  IF hits = {} THEN 0 ELSE CHOOSE i \in hits : \A j \in hits : i <= j

\* The single-player branch of roll_command.
SingleRoll(d, player_name) ==
    LET k == FirstMatch(Scanned(d), player_name) IN
    IF k = 0 THEN {Reply("not_found", <<>>, <<>>)}
    ELSE LET player_data == Scanned(d)[k] IN
         IF Draws(<<player_data>>) = {} THEN {Reply("failed", <<>>, <<>>)}
         ELSE {Reply("roll", player_data.Team, <<RollLine(player_data, f[1])>>) :
                  f \in Draws(<<player_data>>)}

\* /roll: the worksheet is parsed (old.py's parse may raise, which the outer
\* except answers), then the team or the single branch runs and sends its
\* one message.
roll_command ==
    /\ roll_reply = NoReply
    /\ \E r \in {ParseAll(variant, rows)} :
          \E reply \in (IF r.raised THEN {Reply("failed", <<>>, <<>>)}
                         ELSE IF roll_team.given THEN TeamRoll(r.data, roll_team.text)
                         ELSE SingleRoll(r.data, roll_name)) :
             roll_reply' = reply
    /\ UNCHANGED <<variant, parseVars, composeVars, roll_range, roll_bounds, rpc,
                   roll_team, roll_name, botVars>>

-----------------------------------------------------------------------------
(* The bot: users, command invocations and the anonymous submissions       *)

\* The users of the guild's chat.  "admin" holds the role "Agent of Chaos";
\* "user2" is no longer a member of the guild, so that guild.get_member
\* finds nothing and bot.fetch_user is awaited.
Users == {"admin", "user1", "user2"}
RoleHolders == {"admin"}
GuildMembers == {"admin", "user1"}

\* The message texts submitted.
Messages == {"hi", "bye"}

\* has_permission(interaction) of old.py.
has_permission(user) == user \in RoleHolders

\* An invocation slot no command has arrived in, and the fields every
\* invocation carries: the command, the invoking user, where the handler
\* stands (pc), its arguments and locals, and what it sent.
NoTask ==
    [cmd |-> "none", user |-> "none", pc |-> "none", channel |-> 0, arg |-> 0,
     target |-> 0, chan |-> 0, branch |-> "none", read |-> <<0, 0>>,
     shuffled |-> <<>>, admin_log |-> <<>>, i |-> 0,
     public |-> <<>>, private |-> <<>>, replies |-> <<>>]

NewTask(cmd, user) == [NoTask EXCEPT !.cmd = cmd, !.user = user]

TaskIds == 1..MaxCommands

\* The handler of an invocation has ended: returned ("done") or left
\* through an exception ("error").
Ended(task) == task.pc \in {"done", "error"}

\* The slot the next invocation goes to.
NextTask == started + 1

\* ACTIVE_SUBMISSIONS.items()
Items(store) == {<<u, store[u]>> : u \in DOMAIN store}

\* The orders random.shuffle can leave a list of the items in.
Shuffles(items) ==
    {f \in [1..Cardinality(items) -> items] : \A x \in items : \E k \in DOMAIN f : f[k] = x}

\* PublicOutput numbering the lines as enumerate does without the + 1.
PublicOutputFromZero(shuffled) ==
    [k \in 1..Len(shuffled) |-> [num |-> k - 1, msg |-> shuffled[k][2]]]

\* The numbered lines of public_output: `{i+1}.` {msg} for i, (_, msg) in
\* enumerate(shuffled_messages).
PublicOutput(shuffled) ==
    [k \in 1..Len(shuffled) |-> [num |-> k, msg |-> shuffled[k][2]]]

\* One entry of admin_log: number, author and message; `name` says where the
\* author's name came from (guild member, fetched user, or unknown).
AdminEntry(k, entry, name) ==
    [num |-> k, user |-> entry[1], name |-> name, msg |-> entry[2]]

\* The admin_log loop from entry k on, up to the first entry whose author is
\* no guild member (bot.fetch_user is awaited there) or the end of the list.
RECURSIVE LogMembers(_, _, _)
LogMembers(shuffled, log, k) ==
    IF k > Len(shuffled) \/ shuffled[k][1] \notin GuildMembers
    THEN [admin_log |-> log, i |-> k]
    ELSE LogMembers(shuffled, Append(log, AdminEntry(k, shuffled[k], "member")), k + 1)

\* Where show_anon stands after the loop ran to entry k.
AfterLog(k, shuffled) == IF k > Len(shuffled) THEN "send_public" ELSE "fetch_user"

\* A store that keeps a user's first message.
StoreIfAbsent(submissions, user, message) ==
    [u \in DOMAIN submissions \cup {user} |->
        IF u \in DOMAIN submissions THEN submissions[u] ELSE message]

\* ACTIVE_SUBMISSIONS[interaction.user.id] = message
Store(submissions, user, message) ==
    [u \in DOMAIN submissions \cup {user} |->
        IF u = user THEN message ELSE submissions[u]]

\* /answer: the submission is stored before anything is awaited.
anon_submit(user, message) ==
    /\ variant = "old"
    /\ started < MaxCommands
    /\ ACTIVE_SUBMISSIONS' = Store(ACTIVE_SUBMISSIONS, user, message)
    /\ tasks' = [tasks EXCEPT ![NextTask] =
                    [NewTask("answer", user) EXCEPT !.pc = "ack", !.arg = message]]
    /\ started' = started + 1
    /\ UNCHANGED <<variant, parseVars, composeVars, rollVars, boardVars>>

\* /answer resumes from interaction.response.send_message: the
\* acknowledgement was delivered, or the send raised.
anon_submit_ack(t) ==
    /\ tasks[t].cmd = "answer" /\ tasks[t].pc = "ack"
    /\ \E ok \in BOOLEAN :
          tasks' = [tasks EXCEPT ![t].pc = IF ok THEN "done" ELSE "error",
                                 ![t].replies = IF ok THEN <<"submitted">> ELSE <<>>]
    /\ UNCHANGED <<variant, parseVars, composeVars, rollVars, ACTIVE_SUBMISSIONS,
                   boardVars, started>>

\* /showsubmitted: rejection, "No submissions yet!", or the list of the
\* users with a pending submission.  (The handler only reads the store; its
\* awaits are not modelled as separate steps.)
show_submitted(user) ==
    /\ variant = "old"
    /\ started < MaxCommands
    /\ tasks' = [tasks EXCEPT ![NextTask] =
          [NewTask("showsubmitted", user) EXCEPT
              !.pc = "done",
              !.replies = IF ~has_permission(user) THEN <<"restricted">>
                          ELSE IF DOMAIN ACTIVE_SUBMISSIONS = {} THEN <<"no_submissions">>
                          ELSE <<"submitted_list">>]]
    /\ started' = started + 1
    /\ UNCHANGED <<variant, parseVars, composeVars, rollVars, ACTIVE_SUBMISSIONS,
                   boardVars>>

\* /showanswers up to its first await: the permission check, the empty
\* check, the shuffled snapshot of the store, the public text and the
\* admin_log entries of the guild members that come first.
show_anon(user) ==
    /\ variant = "old"
    /\ started < MaxCommands
    /\ IF ~has_permission(user)
       THEN tasks' = [tasks EXCEPT ![NextTask] =
                [NewTask("showanswers", user) EXCEPT
                    !.pc = "done", !.replies = <<"restricted">>]]
       ELSE IF DOMAIN ACTIVE_SUBMISSIONS = {}
       THEN tasks' = [tasks EXCEPT ![NextTask] =
                [NewTask("showanswers", user) EXCEPT
                    !.pc = "done", !.replies = <<"no_submissions">>]]
       ELSE \E shuffled \in Shuffles(Items(ACTIVE_SUBMISSIONS)) :
               LET log == LogMembers(shuffled, <<>>, 1) IN
               tasks' = [tasks EXCEPT ![NextTask] =
                   [NewTask("showanswers", user) EXCEPT
                       !.shuffled = shuffled,
                       !.admin_log = log.admin_log,
                       !.i = log.i,
                       !.pc = AfterLog(log.i, shuffled)]]
    /\ started' = started + 1
    /\ UNCHANGED <<variant, parseVars, composeVars, rollVars, ACTIVE_SUBMISSIONS,
                   boardVars>>

\* /showanswers resumes from bot.fetch_user for entry i: the user's name,
\* or "Unknown User" when the fetch raised; the loop goes on.
show_anon_fetch(t) ==
    /\ tasks[t].cmd = "showanswers" /\ tasks[t].pc = "fetch_user"
    /\ \E name \in {"user", "unknown"} :
          LET task == tasks[t]
              log == LogMembers(task.shuffled,
                        Append(task.admin_log,
                               AdminEntry(task.i, task.shuffled[task.i], name)),
                        task.i + 1)
          IN  tasks' = [tasks EXCEPT ![t].admin_log = log.admin_log,
                                     ![t].i = log.i,
                                     ![t].pc = AfterLog(log.i, task.shuffled)]
    /\ UNCHANGED <<variant, parseVars, composeVars, rollVars, ACTIVE_SUBMISSIONS,
                   boardVars, started>>

\* /showanswers resumes from interaction.response.send_message(public_output):
\* delivered, or the send raised and the exception leaves the handler.
show_anon_public(t) ==
    /\ tasks[t].cmd = "showanswers" /\ tasks[t].pc = "send_public"
    /\ \E ok \in BOOLEAN :
          tasks' = [tasks EXCEPT
              ![t].public = IF ok THEN PublicOutput(tasks[t].shuffled) ELSE <<>>,
              ![t].pc = IF ok THEN "send_private" ELSE "error"]
    /\ UNCHANGED <<variant, parseVars, composeVars, rollVars, ACTIVE_SUBMISSIONS,
                   boardVars, started>>

\* /showanswers resumes from interaction.followup.send(admin_log): delivered
\* and then ACTIVE_SUBMISSIONS.clear(), or the send raised and the exception
\* leaves the handler before the clear.
show_anon_private(t) ==
    /\ tasks[t].cmd = "showanswers" /\ tasks[t].pc = "send_private"
    /\ \E ok \in BOOLEAN :
          /\ tasks' = [tasks EXCEPT
                ![t].private = IF ok THEN tasks[t].admin_log ELSE <<>>,
                ![t].pc = IF ok THEN "done" ELSE "error"]
          /\ ACTIVE_SUBMISSIONS' = IF ok THEN <<>> ELSE ACTIVE_SUBMISSIONS
    /\ UNCHANGED <<variant, parseVars, composeVars, rollVars, boardVars, started>>

-----------------------------------------------------------------------------
(* The bot: update_stats and the round command                             *)

\* The chat's channels; a command arrives in one that exists.
Channels == {1, 2}

\* The round numbers for which a worksheet "Round <n>" exists, and the
\* round numbers asked for.
Worksheets == {1, 2}
RoundNumbers == {1, 2, 3}

\* Who invokes update and round: a user who holds the role and one who does
\* not.
Callers == {"admin", "user1"}

\* The scoreboard message with the given id in the given channel.
Msg(id, ch) == [id |-> id, channel |-> ch]

\* How an awaited call of the chat API inside a try block can come back.
ApiOutcomes == {"ok", "notfound", "error"}

\* update_stats giving up when the stored message is not found.
OnNotFoundGiveUp(v, task) ==
    [task EXCEPT !.pc = "fail_reply", !.branch = "notfound"]

\* Where update_stats goes when fetching or editing the stored message (or
\* the reply after the edit) raised discord.NotFound.  old.py: `pass`, then
\* the new message goes to interaction.channel (lines 314-319).  script.py:
\* a followup notice, then the new message goes to the stored channel
\* (lines 330-332).
OnNotFound(v, task) ==
    IF v = "old"
    THEN [task EXCEPT !.pc = "send_new", !.branch = "notfound", !.chan = task.channel]
    ELSE [task EXCEPT !.pc = "notify", !.branch = "notfound"]

\* Where update_stats goes when one of them raised another error.  old.py:
\* the outer handler (line 327).  script.py: a followup notice and a new
\* message in the stored channel (lines 336-339).
OnError(v, task) ==
    IF v = "old"
    THEN [task EXCEPT !.pc = "fail_reply", !.branch = "error"]
    ELSE [task EXCEPT !.pc = "notify", !.branch = "error"]

OnOutcome(v, task, outcome, next) ==
    IF outcome = "ok" THEN [task EXCEPT !.pc = next]
    ELSE IF outcome = "notfound" THEN OnNotFound(v, task)
    ELSE OnError(v, task)

\* current_sheet.get_all_values(): the rows a parse reads are those of the
\* active round's worksheet as it stands now, named here by the round and
\* the worksheet's revision.
RowsRead(sheet, rev) == <<sheet, rev[sheet]>>

\* /update arrives.  old.py checks the role first (lines 343-345);
\* script.py calls update_stats for anyone (line 372).  update_stats then
\* awaits interaction.response.defer.
update_command(user, ch) ==
    /\ started < MaxUpdates
    /\ ch \in channels
    /\ tasks' = [tasks EXCEPT ![NextTask] =
          IF variant = "old" /\ ~has_permission(user)
          THEN [NewTask("update", user) EXCEPT
                   !.channel = ch, !.pc = "done", !.replies = <<"restricted">>]
          ELSE [NewTask("update", user) EXCEPT !.channel = ch, !.pc = "defer"]]
    /\ started' = started + 1
    /\ UNCHANGED <<variant, parseVars, composeVars, rollVars, ACTIVE_SUBMISSIONS,
                   boardVars>>

\* update_stats resumes from defer: the worksheet is parsed and the image
\* generated (any of the three may raise), then the stored ids decide
\* between fetching the stored message and sending a new one.
update_defer(t) ==
    /\ tasks[t].cmd = "update" /\ tasks[t].pc = "defer"
    /\ \E ok \in BOOLEAN :
          tasks' = [tasks EXCEPT ![t] =
              IF ~ok THEN [@ EXCEPT !.pc = "fail_reply"]
              ELSE IF message_id # 0 /\ channel_id # 0
              THEN IF channel_id \in channels
                   THEN [@ EXCEPT !.pc = "fetch", !.target = message_id, !.chan = channel_id,
                                  !.read = RowsRead(current_sheet, revision)]
                   ELSE IF variant = "old"
                   THEN [@ EXCEPT !.pc = "send_new", !.branch = "nochannel",
                                  !.chan = tasks[t].channel,
                                  !.read = RowsRead(current_sheet, revision)]
                   ELSE [@ EXCEPT !.pc = "notify", !.branch = "nochannel",
                                  !.chan = tasks[t].channel,
                                  !.read = RowsRead(current_sheet, revision)]
              ELSE [@ EXCEPT !.pc = "send_new", !.branch = "fresh",
                             !.chan = tasks[t].channel,
                             !.read = RowsRead(current_sheet, revision)]]
    /\ UNCHANGED <<variant, parseVars, composeVars, rollVars, ACTIVE_SUBMISSIONS,
                   boardVars, started>>

\* update_stats resumes from channel.fetch_message: found only when the
\* message still exists.
update_fetch(t) ==
    /\ tasks[t].cmd = "update" /\ tasks[t].pc = "fetch"
    /\ \E outcome \in ApiOutcomes :
          /\ outcome = "ok" => Msg(tasks[t].target, tasks[t].chan) \in messages
          /\ outcome = "notfound" => Msg(tasks[t].target, tasks[t].chan) \notin messages
          /\ tasks' = [tasks EXCEPT ![t] = OnOutcome(variant, @, outcome, "edit")]
    /\ UNCHANGED <<variant, parseVars, composeVars, rollVars, ACTIVE_SUBMISSIONS,
                   boardVars, started>>

\* update_stats resumes from msg.edit: the message got the new image only
\* when it still exists.
update_edit(t) ==
    /\ tasks[t].cmd = "update" /\ tasks[t].pc = "edit"
    /\ \E outcome \in ApiOutcomes :
          /\ outcome = "ok" => Msg(tasks[t].target, tasks[t].chan) \in messages
          /\ outcome = "notfound" => Msg(tasks[t].target, tasks[t].chan) \notin messages
          /\ edits' = IF outcome = "ok" THEN edits + 1 ELSE edits
          /\ tasks' = [tasks EXCEPT ![t] = OnOutcome(variant, @, outcome, "reply_updated")]
    /\ UNCHANGED <<variant, parseVars, composeVars, rollVars, ACTIVE_SUBMISSIONS,
                   message_id, channel_id, current_sheet, config, revision, channels,
                   messages, posted, started>>

\* update_stats resumes from followup.send("Stats updated!"), which is still
\* inside the inner try.
update_reply_updated(t) ==
    /\ tasks[t].cmd = "update" /\ tasks[t].pc = "reply_updated"
    /\ \E outcome \in ApiOutcomes :
          tasks' = [tasks EXCEPT ![t] =
              IF outcome = "ok"
              THEN [@ EXCEPT !.pc = "done", !.replies = Append(@, "updated")]
              ELSE OnOutcome(variant, @, outcome, "done")]
    /\ UNCHANGED <<variant, parseVars, composeVars, rollVars, ACTIVE_SUBMISSIONS,
                   boardVars, started>>

\* script.py resumes from the followup notice ("... creating new one..."),
\* sent before the new message.
update_notify(t) ==
    /\ tasks[t].cmd = "update" /\ tasks[t].pc = "notify"
    /\ \E ok \in BOOLEAN :
          tasks' = [tasks EXCEPT ![t] =
              IF ok THEN [@ EXCEPT !.pc = "send_new", !.replies = Append(@, "creating_new")]
              ELSE [@ EXCEPT !.pc = "fail_reply"]]
    /\ UNCHANGED <<variant, parseVars, composeVars, rollVars, ACTIVE_SUBMISSIONS,
                   boardVars, started>>

\* The Config worksheet after the writes of the new ids, as far as they
\* got.  old.py writes message_id, then channel_id, in two calls of
\* _update_config (lines 322-323); script.py writes both in one call of
\* config_sheet.update.
ConfigWrites(v) == IF v = "old" THEN {"both", "first", "none"} ELSE {"both", "none"}

ConfigAfter(cfg, written, id, ch) ==
    IF written = "both" THEN [cfg EXCEPT !.message_id = id, !.channel_id = ch]
    ELSE IF written = "first" THEN [cfg EXCEPT !.message_id = id]
    ELSE cfg

\* update_stats resumes from channel.send(file): when the message was sent,
\* its ids are stored in memory and then written to the Config worksheet.
update_send_new(t) ==
    /\ tasks[t].cmd = "update" /\ tasks[t].pc = "send_new"
    /\ \/ /\ tasks' = [tasks EXCEPT ![t].pc = "fail_reply"]
          /\ UNCHANGED boardVars
       \/ /\ tasks[t].chan \in channels
          /\ \E written \in ConfigWrites(variant) :
                LET id == posted + 1 IN
                /\ messages' = messages \cup {Msg(id, tasks[t].chan)}
                /\ posted' = id
                /\ message_id' = id
                /\ channel_id' = tasks[t].chan
                /\ config' = ConfigAfter(config, written, id, tasks[t].chan)
                /\ tasks' = [tasks EXCEPT ![t].pc =
                      IF written # "both" THEN "fail_reply"
                      ELSE IF variant = "old" \/ tasks[t].branch = "fresh"
                      THEN "reply_created"
                      ELSE "done"]
          /\ UNCHANGED <<current_sheet, channels, edits>>
    /\ UNCHANGED <<variant, parseVars, composeVars, rollVars, ACTIVE_SUBMISSIONS,
                   revision, started>>

\* update_stats resumes from followup.send("Created new stats board!").
update_reply_created(t) ==
    /\ tasks[t].cmd = "update" /\ tasks[t].pc = "reply_created"
    /\ \E ok \in BOOLEAN :
          tasks' = [tasks EXCEPT ![t] =
              IF ok THEN [@ EXCEPT !.pc = "done", !.replies = Append(@, "created")]
              ELSE [@ EXCEPT !.pc = "fail_reply"]]
    /\ UNCHANGED <<variant, parseVars, composeVars, rollVars, ACTIVE_SUBMISSIONS,
                   boardVars, started>>

\* The outer handler resumes from followup.send("Failed ...").  When that
\* send raises too, old.py's handlers let the exception out; script.py
\* swallows it (lines 358-361).
fail_reply(t) ==
    /\ tasks[t].cmd \in {"update", "round"} /\ tasks[t].pc = "fail_reply"
    /\ \E ok \in BOOLEAN :
          tasks' = [tasks EXCEPT ![t] =
              IF ok THEN [@ EXCEPT !.pc = "done", !.replies = Append(@, "failed")]
              ELSE [@ EXCEPT !.pc = IF variant = "old" THEN "error" ELSE "done"]]
    /\ UNCHANGED <<variant, parseVars, composeVars, rollVars, ACTIVE_SUBMISSIONS,
                   boardVars, started>>

\* /round <n> arrives (old.py): the role check, then defer is awaited.
round_command(user, round_number) ==
    /\ variant = "old"
    /\ started < MaxUpdates
    /\ tasks' = [tasks EXCEPT ![NextTask] =
          IF ~has_permission(user)
          THEN [NewTask("round", user) EXCEPT
                   !.arg = round_number, !.pc = "done", !.replies = <<"restricted">>]
          ELSE [NewTask("round", user) EXCEPT !.arg = round_number, !.pc = "defer"]]
    /\ started' = started + 1
    /\ UNCHANGED <<variant, parseVars, composeVars, rollVars, ACTIVE_SUBMISSIONS,
                   boardVars>>

\* set_round finding every worksheet it is asked for.
AnyWorksheetExists(round_number) == TRUE

\* spreadsheet.worksheet(f"Round {round_number}") finds the worksheet;
\* otherwise it raises WorksheetNotFound.
WorksheetExists(round_number) == round_number \in Worksheets

\* round_command resumes from defer and calls set_round: the worksheet is
\* looked up and made current, then current_round is written to the Config
\* worksheet (the write may raise).  A missing worksheet is a ValueError,
\* whose text is sent back.
round_defer(t) ==
    /\ tasks[t].cmd = "round" /\ tasks[t].pc = "defer"
    /\ \/ /\ tasks' = [tasks EXCEPT ![t].pc = "fail_reply"]
          /\ UNCHANGED <<current_sheet, config>>
       \/ /\ ~WorksheetExists(tasks[t].arg)
          /\ tasks' = [tasks EXCEPT ![t].pc = "reply_not_found"]
          /\ UNCHANGED <<current_sheet, config>>
       \/ /\ WorksheetExists(tasks[t].arg)
          /\ current_sheet' = tasks[t].arg
          /\ \E ok \in BOOLEAN :
                /\ config' = IF ok THEN [config EXCEPT !.current_round = tasks[t].arg]
                             ELSE config
                /\ tasks' = [tasks EXCEPT ![t].pc =
                                IF ok THEN "reply_switched" ELSE "fail_reply"]
    /\ UNCHANGED <<variant, parseVars, composeVars, rollVars, ACTIVE_SUBMISSIONS,
                   message_id, channel_id, revision, channels, messages, posted, edits,
                   started>>

\* round_command resumes from followup.send of "Switched to Round <n>!"
\* (inside the try) or of the ValueError's text (inside its handler).
round_reply(t) ==
    /\ tasks[t].cmd = "round" /\ tasks[t].pc \in {"reply_switched", "reply_not_found"}
    /\ \E ok \in BOOLEAN :
          tasks' = [tasks EXCEPT ![t] =
              IF ok
              THEN [@ EXCEPT !.pc = "done",
                             !.replies = Append(@, IF tasks[t].pc = "reply_switched"
                                                   THEN "switched" ELSE "not_found")]
              ELSE [@ EXCEPT !.pc = IF @ = "reply_switched"
                                    THEN "fail_reply" ELSE "error"]]
    /\ UNCHANGED <<variant, parseVars, composeVars, rollVars, ACTIVE_SUBMISSIONS,
                   boardVars, started>>

\* /roll arrives; the handler awaits interaction.response.defer.
roll_start(user) ==
    /\ started < MaxCommands
    /\ tasks' = [tasks EXCEPT ![NextTask] = [NewTask("roll", user) EXCEPT !.pc = "defer"]]
    /\ started' = started + 1
    /\ UNCHANGED <<variant, parseVars, composeVars, rollVars, ACTIVE_SUBMISSIONS,
                   boardVars>>

\* roll_command resumes from defer and parses the active worksheet; the
\* rolls are drawn and the answer is put together (roll_command above), or
\* one of these raises.
roll_parse(t) ==
    /\ tasks[t].cmd = "roll" /\ tasks[t].pc = "defer"
    /\ \E ok \in BOOLEAN :
          tasks' = [tasks EXCEPT ![t] =
              IF ok THEN [@ EXCEPT !.pc = "reply", !.read = RowsRead(current_sheet, revision)]
              ELSE [@ EXCEPT !.pc = "roll_failed"]]
    /\ UNCHANGED <<variant, parseVars, composeVars, rollVars, ACTIVE_SUBMISSIONS,
                   boardVars, started>>

\* roll_command resumes from followup.send of its answer (inside the try)
\* or of "Something went wrong with the roll" (inside the handler).
roll_send(t) ==
    /\ tasks[t].cmd = "roll" /\ tasks[t].pc \in {"reply", "roll_failed"}
    /\ \E ok \in BOOLEAN :
          tasks' = [tasks EXCEPT ![t] =
              IF ok
              THEN [@ EXCEPT !.pc = "done",
                             !.replies = Append(@, IF tasks[t].pc = "reply"
                                                   THEN "rolled" ELSE "failed")]
              ELSE [@ EXCEPT !.pc = IF @ = "reply" THEN "roll_failed" ELSE "error"]]
    /\ UNCHANGED <<variant, parseVars, composeVars, rollVars, ACTIVE_SUBMISSIONS,
                   boardVars, started>>

\* The number of edits of the given worksheets so far.
RECURSIVE Edited(_, _)
Edited(rev, sheets) ==
    IF sheets = {} THEN 0
    ELSE LET n == CHOOSE n \in sheets : TRUE IN rev[n] + Edited(rev, sheets \ {n})

\* Someone edits a round's worksheet in the spreadsheet.
edit_worksheet(round_number) ==
    /\ Edited(revision, Worksheets) < MaxEdits
    /\ revision' = [revision EXCEPT ![round_number] = @ + 1]
    /\ UNCHANGED <<variant, parseVars, composeVars, rollVars, ACTIVE_SUBMISSIONS,
                   message_id, channel_id, current_sheet, config, channels, messages,
                   posted, edits, tasks, started>>

\* Someone deletes a scoreboard message in the chat.
delete_message(m) ==
    /\ m \in messages
    /\ messages' = messages \ {m}
    /\ UNCHANGED <<variant, parseVars, composeVars, rollVars, ACTIVE_SUBMISSIONS,
                   message_id, channel_id, current_sheet, config, revision, channels,
                   posted, edits, tasks, started>>

-----------------------------------------------------------------------------
(* States in which a part of the program has not run *)

ParseIdle ==
    /\ rows = <<>>
    /\ pos = 1
    /\ current_section = "none"
    /\ data = EmptyData
    /\ ppc = "idle"

ComposeIdle ==
    /\ all_players = <<>>
    /\ render = <<>>
    /\ cpc = "idle"

RollIdle ==
    /\ roll_range = <<>>
    /\ roll_bounds = <<0, 0>>
    /\ rpc = "idle"
    /\ roll_team = NoTeam
    /\ roll_name = <<>>
    /\ roll_reply = NoReply

\* No submission is pending.
NoSubmissions == <<>>

\* The bot after construction with an empty Config worksheet, before any
\* command: no target message, worksheet "Round 1" active (load_config and
\* set_round wrote current_round = 1).
BotIdle ==
    /\ ACTIVE_SUBMISSIONS = NoSubmissions
    /\ message_id = 0
    /\ channel_id = 0
    /\ current_sheet = 1
    /\ config = [message_id |-> 0, channel_id |-> 0, current_round |-> 1]
    /\ revision = [n \in Worksheets |-> 0]
    /\ channels = Channels
    /\ messages = {}
    /\ posted = 0
    /\ edits = 0
    /\ tasks = [t \in TaskIds |-> NoTask]
    /\ started = 0

-----------------------------------------------------------------------------
(* Worksheet rows the parser is run on *)

\* two cells; the first holds "red" and "team" but not "blue"
RowRedTeamBlueTeam == <<<<"R","E","D"," ","T","E","A","M">>, <<"B","L","U","E"," ","T","E","A","M">>>>
\* a red player
RowAlice == <<<<"A","l","i","c","e">>, <<"r","e","d">>, <<"1","0","-","2","0">>, <<"5">>, <<>>>>
\* the ranking marker
RowLeaderboard == <<<<"L","E","A","D","E","R","B","O","A","R","D">>>>
\* a ranking row
RowAliceRank == <<<<"1">>, <<"r","e","d">>, <<"A","l","i","c","e">>, <<"3","0">>>>
\* a red/blue marker
RowRedBlue == <<<<"R","e","d"," ","/"," ","B","l","u","e">>>>
\* a green/yellow marker
RowGreenYellow == <<<<"G","r","e","e","n"," ","Y","e","l","l","o","w">>>>
\* a green player, cells padded, coins blank
RowBob == <<<<" ","B","o","b"," ">>, <<" ","G","r","e","e","n"," ">>, <<"1","-","2">>, <<" ">>>>
\* an empty row
RowEmpty == <<>>
\* an unknown team as a player row, non-numeric points as a ranking row
RowPurple == <<<<"2">>, <<"p","u","r","p","l","e">>, <<"C","y">>, <<"x">>>>
\* points cell of one digit character that is no decimal digit
RowSuperscript == <<<<"3">>, <<"r","e","d">>, <<"C","y">>, <<"SUPERSCRIPT_TWO">>>>
\* two cells
RowShort == <<<<"C","y">>, <<"b","l","u","e">>>>
\* a red/blue marker that also holds the column label "team"
RowRedBlueTeams == <<<<"R","e","d","/","B","l","u","e"," ","T","e","a","m","s">>>>

RowTemplates ==
    {RowRedTeamBlueTeam,
     RowAlice,
     RowLeaderboard,
     RowAliceRank,
     RowRedBlue,
     RowGreenYellow,
     RowBob,
     RowEmpty,
     RowPurple,
     RowSuperscript,
     RowShort,
     RowRedBlueTeams}

\* The four rows of the specification's parsing scenario, as written there.
ScenarioRows == <<RowRedTeamBlueTeam, RowAlice, RowLeaderboard, RowAliceRank>>

\* The same scenario with the pair marker in one cell.
ScenarioRowsOneCell == <<RowRedBlue, RowAlice, RowLeaderboard, RowAliceRank>>

\* Every worksheet of at most MaxRows rows, and the two scenarios.
ParseInputs ==
    UNION {[1..n -> RowTemplates] : n \in 0..MaxRows}
        \cup {ScenarioRows, ScenarioRowsOneCell}

-----------------------------------------------------------------------------
(* Specification of the parser followed by the composer *)

InitParse ==
    /\ variant \in Variants
    /\ rows \in ParseInputs
    /\ pos = 1
    /\ current_section = "none"
    /\ data = EmptyData
    /\ ppc = "parsing"
    /\ ComposeIdle
    /\ RollIdle
    /\ BotIdle

NextParse == ParseRowStep \/ ParseReturn \/ Compose

SpecParse == InitParse /\ [][NextParse]_vars

-----------------------------------------------------------------------------
(* Claims about the parser *)

ALICE == <<"A","l","i","c","e">>

\* The roster entries the scenario names.
ScenarioPlayer ==
    [Name |-> ALICE, Team |-> RED, Roll |-> <<"1","0","-","2","0">>,
     Chaos_coins |-> <<"5">>, Status |-> <<>>]
ScenarioEntry ==
    [Position |-> <<"1">>, Team |-> RED, Combatant |-> ALICE, Points |-> 30]

\* The result the scenario states: Alice alone in red_team, one ranking
\* entry, and once composed one card, Alice's, with 30 points and rank 1.
ScenarioResult ==
    /\ data.red_team = <<ScenarioPlayer>>
    /\ data.leaderboard = <<ScenarioEntry>>
    /\ cpc = "done" =>
          /\ Len(render) = 1
          /\ render[1].player.name = ALICE
          /\ render[1].player.points = 30
          /\ render[1].position = 1

\* C1 as stated: in both variants the four rows ["RED TEAM","BLUE TEAM"],
\* ["Alice","red","10-20","5",""], ["LEADERBOARD"], ["1","red","Alice","30"]
\* parse into the scenario's roster and compose into Alice's single card.
C1_AsStated ==
    (rows = ScenarioRows /\ ppc = "returned") => ScenarioResult

\* C1 amended: the first cell "RED TEAM" holds no "blue", so the first row is
\* skipped as a header and no section is open when Alice's row comes: in both
\* variants every team list stays empty, the ranking list holds Alice's entry
\* and no card is drawn.  With the pair marker in one cell ("Red / Blue") the
\* scenario's stated result is what both variants produce.
C1_Scenario ==
    /\ (rows = ScenarioRows /\ ppc = "returned") =>
          /\ \A i \in 1..Len(TeamKeys) : data[TeamKeys[i]] = <<>>
          /\ data.leaderboard = <<ScenarioEntry>>
          /\ cpc = "done" => render = <<>>
    /\ (rows = ScenarioRowsOneCell /\ ppc = "returned") => ScenarioResult

\* The scenario has been parsed and composed.
C1_Witness == rows = ScenarioRows /\ ppc = "returned" /\ cpc = "done"

\* The two teams of a team-pair section.
PairOf(sec) ==
    IF sec = "red_blue" THEN {RED, BLUE}
    ELSE IF sec = "green_yellow" THEN {GREEN, YELLOW}
    ELSE {}

\* The row the loop takes next is a data row of a team-pair block: not empty,
\* no marker, no header, at least 3 cells, with a team-pair section current.
AtPairDataRow ==
    /\ ppc = "parsing"
    /\ pos <= Len(rows)
    /\ current_section \in {"red_blue", "green_yellow"}
    /\ Len(rows[pos]) >= 3
    /\ MarkerOf(FirstCell(rows[pos])) = ""
    /\ ~IsHeader(FirstCell(rows[pos]))

TeamLists(d) == [i \in 1..Len(TeamKeys) |-> d[TeamKeys[i]]]

\* C2: in every variant, a data row processed in a team-pair block whose team
\* cell (trimmed, lower-cased) is not one of the block's two teams is
\* appended to none of the four team lists.
C2_WrongPairDropped ==
    [][(AtPairDataRow /\ Strip(Lower(Cell(rows[pos], 1))) \notin PairOf(current_section))
          => TeamLists(data') = TeamLists(data)]_vars

\* C3: in every variant the parse of any row sequence returns a roster and
\* raises no error to its caller.
C3_NeverRaises == ppc # "raised"

-----------------------------------------------------------------------------
(* Specification of the composer on larger rosters *)

ANN == <<"A","n","n">>
ANN_UPPER == <<"A","N","N">>
BOB == <<"B","o","b">>
CY == <<"C","y">>
ROLL_1_2 == <<"1","-","2">>

\* A player row and a ranking row of a worksheet.
PlayerRow(name, team) == <<name, team, ROLL_1_2>>
RankRow(name, points) == <<<<"9">>, RED, name, points>>

PickedPlayers == {<<ANN_UPPER, RED>>, <<BOB, RED>>, <<ANN_UPPER, BLUE>>, <<BOB, GREEN>>}
RankRows == {RankRow(ANN, <<"4","2">>), RankRow(Lower(ANN), <<"7">>), RankRow(CY, <<"7">>)}

\* The k-th filler player: named Cy, teams taken in turn.
FillRow(k) == PlayerRow(CY, TEAMS[(k % 4) + 1])

\* The worksheet holding the picked players and `fill` filler players under
\* their pair's marker, then the ranking rows.
SheetOf(picked, fill, ranked) ==
    LET players == [i \in 1..Len(picked) |-> PlayerRow(picked[i][1], picked[i][2])]
                      \o [k \in 1..fill |-> FillRow(k)]
        inPair(pair) == SelectSeq(players, LAMBDA r : r[2] \in pair)
    IN  <<RowRedBlue>> \o inPair({RED, BLUE})
           \o <<RowGreenYellow>> \o inPair({GREEN, YELLOW})
           \o <<RowLeaderboard>> \o ranked

PickedLists == UNION {[1..n -> PickedPlayers] : n \in 0..MaxPicked}
RankedLists == UNION {[1..n -> RankRows] : n \in 0..MaxRanked}
FillCounts == {0, MaxFill}

ComposeSheets ==
    {SheetOf(picked, fill, ranked) :
        picked \in PickedLists, fill \in FillCounts, ranked \in RankedLists}

\* The state in which parse has returned the roster of a worksheet.
InitCompose ==
    /\ variant \in Variants
    /\ rows \in ComposeSheets
    /\ \E r \in {ParseAll(variant, rows)} :
          /\ pos = r.pos
          /\ current_section = r.section
          /\ data = r.data
    /\ ppc = "returned"
    /\ ComposeIdle
    /\ RollIdle
    /\ BotIdle

NextCompose == Compose

SpecCompose == InitCompose /\ [][NextCompose]_vars

-----------------------------------------------------------------------------
(* Claims about the composer *)

\* The roster's players in combination order: teams red, blue, green,
\* yellow, rows in order within a team.
Enumerated(d) == d.red_team \o d.blue_team \o d.green_team \o d.yellow_team

\* Who a composed player / a roster player is.
WhoComposed(seq) == [i \in 1..Len(seq) |-> <<seq[i].name, seq[i].team>>]
WhoRoster(seq) == [i \in 1..Len(seq) |-> <<seq[i].Name, seq[i].Team>>]

\* C4: the composed sequence holds every roster player, is ordered by points
\* descending, and the players of any one points value appear in combination
\* order (red, blue, green, yellow, then row order): the sort is stable.
C4_SortedStable ==
    cpc = "done" =>
        /\ Len(all_players) = Len(Enumerated(data))
        /\ \A i \in 1..(Len(all_players) - 1) :
              all_players[i].points >= all_players[i + 1].points
        /\ \A p \in {all_players[i].points : i \in 1..Len(all_players)} :
              WhoComposed(SelectSeq(all_players, LAMBDA x : x.points = p))
                 = WhoRoster(SelectSeq(Enumerated(data),
                       LAMBDA x : PointsOf(variant, data.leaderboard, x.Name) = p))

\* Composed: two different players tie and a third has other points.
C4_Witness ==
    /\ cpc = "done"
    /\ \E i, j, k \in 1..Len(all_players) :
          /\ i < j
          /\ all_players[i].points = all_players[j].points
          /\ WhoComposed(all_players)[i] # WhoComposed(all_players)[j]
          /\ all_players[k].points # all_players[i].points

TotalPlayers(d) == Len(Enumerated(d))

\* C5: the cards drawn number min(total players, 16), card i carries rank
\* position i and is the i-th player of the sorted sequence, so players
\* beyond the 16th get no card.
C5_CountAndRanks ==
    cpc = "done" =>
        /\ Len(render) = IF TotalPlayers(data) < 16 THEN TotalPlayers(data) ELSE 16
        /\ \A i \in 1..Len(render) :
              /\ render[i].position = i
              /\ render[i].player = all_players[i]

\* Composed from a roster of more than 16 players.
C5_Witness == cpc = "done" /\ TotalPlayers(data) > 16 /\ Len(render) = 16

\* The ranking entries whose combatant equals `name` ignoring letter case.
MatchesOf(lb, name) == {k \in 1..Len(lb) : Lower(lb[k].Combatant) = Lower(name)}

\* C6: a composed player's points are those of a ranking entry whose
\* combatant equals the player's name ignoring letter case, and 0 when no
\* ranking entry matches.
C6_PointsByName ==
    cpc = "done" =>
        \A i \in 1..Len(all_players) :
            LET m == MatchesOf(data.leaderboard, all_players[i].name) IN
            IF m = {} THEN all_players[i].points = 0
            ELSE \E k \in m : all_players[i].points = data.leaderboard[k].Points

\* Composed: player "ANN" got 42 from the only ranking entry, "Ann", and an
\* unranked player got 0.
C6_Witness ==
    /\ cpc = "done"
    /\ Len(data.leaderboard) = 1
    /\ data.leaderboard[1].Combatant = ANN /\ data.leaderboard[1].Points = 42
    /\ \E i, j \in 1..Len(all_players) :
          /\ all_players[i].name = ANN_UPPER /\ all_players[i].points = 42
          /\ all_players[j].name = BOB /\ all_players[j].points = 0

-----------------------------------------------------------------------------
(* Specification of the roll bounds *)

RollAlphabet == {"5", "0", "7", "-", "x", " "}

TEXT_50_75 == <<"5","0","-","7","5">>
TEXT_BOGUS == <<"b","o","g","u","s">>
TEXT_10_20_30 == <<"1","0","-","2","0","-","3","0">>

\* Every text of at most MaxRollLen characters, and the texts the
\* specification names.
RollTexts ==
    UNION {[1..n -> RollAlphabet] : n \in 0..MaxRollLen}
        \cup {TEXT_50_75, TEXT_BOGUS, TEXT_10_20_30, <<>>}

InitRoll ==
    /\ variant \in Variants
    /\ ParseIdle
    /\ ComposeIdle
    /\ roll_range \in RollTexts
    /\ roll_bounds = <<0, 0>>
    /\ rpc = "idle"
    /\ roll_team = NoTeam
    /\ roll_name = <<>>
    /\ roll_reply = NoReply
    /\ BotIdle

NextRoll == ParseRollRange

SpecRoll == InitRoll /\ [][NextRoll]_vars

\* s is one or more decimal digits.
IsNumeral(s) == Len(s) > 0 /\ \A i \in 1..Len(s) : s[i] \in DecimalChars

\* s is a numeral with optional blanks around it.
IsPaddedNumeral(s) == IsNumeral(Strip(s))

\* The positions of '-' in a text.
Dashes(s) == {i \in 1..Len(s) : s[i] = "-"}

\* C7: a text a-b of two numerals gives the bounds (a, b), "50-75" gives
\* (50, 75), and a text that does not split on '-' into exactly two numbers
\* ("bogus", the empty text, "10-20-30") gives the default (100, 200).
C7_RollBounds ==
    rpc = "ranged" =>
        /\ \A k \in Dashes(roll_range) :
              (IsNumeral(SubSeq(roll_range, 1, k - 1))
                  /\ IsNumeral(SubSeq(roll_range, k + 1, Len(roll_range))))
              => roll_bounds = <<DecimalValue(SubSeq(roll_range, 1, k - 1)),
                                 DecimalValue(SubSeq(roll_range, k + 1, Len(roll_range)))>>
        /\ roll_range = TEXT_50_75 => roll_bounds = <<50, 75>>
        /\ (\/ Cardinality(Dashes(roll_range)) # 1
            \/ \E k \in Dashes(roll_range) :
                  \/ ~IsPaddedNumeral(SubSeq(roll_range, 1, k - 1))
                  \/ ~IsPaddedNumeral(SubSeq(roll_range, k + 1, Len(roll_range))))
              => roll_bounds = <<100, 200>>
        /\ roll_range \in {TEXT_BOGUS, <<>>, TEXT_10_20_30} => roll_bounds = <<100, 200>>

\* The bounds of "50-75" have been read.
C7_Witness == rpc = "ranged" /\ roll_range = TEXT_50_75 /\ roll_bounds = <<50, 75>>

-----------------------------------------------------------------------------
(* Specification of the anonymous submissions (old.py)                      *)

InitAnon ==
    /\ variant = "old"
    /\ ParseIdle
    /\ ComposeIdle
    /\ RollIdle
    /\ BotIdle

NextAnon ==
    \/ \E u \in Users, msg \in Messages : anon_submit(u, msg)
    \/ \E t \in TaskIds : anon_submit_ack(t)
    \/ \E u \in Users : show_submitted(u)
    \/ \E u \in Users : show_anon(u)
    \/ \E t \in TaskIds : show_anon_fetch(t)
    \/ \E t \in TaskIds : show_anon_public(t)
    \/ \E t \in TaskIds : show_anon_private(t)

SpecAnon == InitAnon /\ [][NextAnon]_vars

-----------------------------------------------------------------------------
(* Claims about the anonymous submissions *)

\* Invocation t arrives in this step as a showanswers that passes the
\* permission check and finds submissions pending.
RevealStarts(t) ==
    /\ tasks[t].cmd = "none"
    /\ tasks'[t].cmd = "showanswers"
    /\ has_permission(tasks'[t].user)
    /\ DOMAIN ACTIVE_SUBMISSIONS # {}

\* What invocation t of showanswers has delivered is numbered 1..N over its
\* snapshot: public line k shows the k-th message, private entry k names
\* the k-th author and message.
RevealConsistent(task) ==
    /\ task.public # <<>> =>
          /\ Len(task.public) = Len(task.shuffled)
          /\ \A k \in 1..Len(task.public) :
                task.public[k].num = k /\ task.public[k].msg = task.shuffled[k][2]
    /\ task.private # <<>> =>
          /\ task.public # <<>>
          /\ Len(task.private) = Len(task.public)
          /\ \A k \in 1..Len(task.private) :
                /\ task.private[k].num = k
                /\ task.private[k].msg = task.public[k].msg
                /\ task.private[k].user = task.shuffled[k][1]

\* C8: a showanswers by an authorized user with N pending submissions takes
\* a snapshot holding each pending (user, message) pair exactly once; the
\* public output it delivers has the N lines numbered 1..N, one per pending
\* message, and the private mapping gives for each number the user who
\* submitted the message on that public line.
C8_Reveal ==
    [][\A t \in TaskIds :
          /\ RevealStarts(t) =>
                /\ Len(tasks'[t].shuffled) = Cardinality(DOMAIN ACTIVE_SUBMISSIONS)
                /\ {tasks'[t].shuffled[k] : k \in 1..Len(tasks'[t].shuffled)}
                      = Items(ACTIVE_SUBMISSIONS)
          /\ tasks'[t].cmd = "showanswers" => RevealConsistent(tasks'[t])]_vars

\* A showanswers has delivered both outputs for the submissions of user1
\* and user2, user2's message on line 1.
C8_Witness ==
    \E t \in TaskIds :
        /\ tasks[t].cmd = "showanswers" /\ tasks[t].pc = "done"
        /\ Len(tasks[t].public) = 2 /\ Len(tasks[t].private) = 2
        /\ tasks[t].private[1].user = "user2"
        /\ tasks[t].private[2].user = "user1"
        /\ tasks[t].public[1].msg = "bye" /\ tasks[t].public[2].msg = "hi"

\* C9: every showanswers by an authorized user that found pending
\* submissions ends, whether or not its deliveries succeeded, with the
\* store empty.
C9_AlwaysCleared ==
    [][\A t \in TaskIds :
          (/\ tasks[t].cmd = "showanswers"
           /\ tasks[t].shuffled # <<>>
           /\ ~Ended(tasks[t])
           /\ Ended(tasks'[t]))
          => DOMAIN ACTIVE_SUBMISSIONS' = {}]_vars

-----------------------------------------------------------------------------
(* Specification of the commands *)

\* The bot after construction: the Config worksheet is empty (BotIdle), or
\* holds the ids of an earlier scoreboard message; the message, or its
\* whole channel, may have been deleted since.
InitBoard ==
    \/ BotIdle
    \/ /\ ACTIVE_SUBMISSIONS = NoSubmissions
       /\ \E ch \in Channels :
             /\ message_id = 1
             /\ channel_id = ch
             /\ config = [message_id |-> 1, channel_id |-> ch, current_round |-> 1]
             /\ channels \in {Channels, {1}}
             /\ messages \in {{}, {Msg(1, ch)}}
             /\ ch \notin channels => messages = {}
       /\ current_sheet = 1
       /\ revision = [n \in Worksheets |-> 0]
       /\ posted = 1
       /\ edits = 0
       /\ tasks = [t \in TaskIds |-> NoTask]
       /\ started = 0

InitBot ==
    /\ variant \in Variants
    /\ ParseIdle
    /\ ComposeIdle
    /\ RollIdle
    /\ InitBoard

NextBoard ==
    \/ \E u \in Callers, ch \in Channels : update_command(u, ch)
    \/ \E t \in TaskIds : update_defer(t)
    \/ \E t \in TaskIds : update_fetch(t)
    \/ \E t \in TaskIds : update_edit(t)
    \/ \E t \in TaskIds : update_reply_updated(t)
    \/ \E t \in TaskIds : update_notify(t)
    \/ \E t \in TaskIds : update_send_new(t)
    \/ \E t \in TaskIds : update_reply_created(t)
    \/ \E t \in TaskIds : fail_reply(t)
    \/ \E u \in Callers, n \in RoundNumbers : round_command(u, n)
    \/ \E t \in TaskIds : round_defer(t)
    \/ \E t \in TaskIds : round_reply(t)
    \/ \E m \in messages : delete_message(m)

SpecBoard == InitBot /\ [][NextBoard]_vars

\* The commands that read or switch the round worksheets, run by a holder
\* of the role in one channel while the worksheets are edited.
NextSheets ==
    \/ update_command("admin", 1)
    \/ \E t \in TaskIds : update_defer(t)
    \/ \E t \in TaskIds : update_fetch(t)
    \/ \E t \in TaskIds : update_edit(t)
    \/ \E t \in TaskIds : update_reply_updated(t)
    \/ \E t \in TaskIds : update_notify(t)
    \/ \E t \in TaskIds : update_send_new(t)
    \/ \E t \in TaskIds : update_reply_created(t)
    \/ \E t \in TaskIds : fail_reply(t)
    \/ \E n \in RoundNumbers : round_command("admin", n)
    \/ \E t \in TaskIds : round_defer(t)
    \/ \E t \in TaskIds : round_reply(t)
    \/ roll_start("admin")
    \/ \E t \in TaskIds : roll_parse(t)
    \/ \E t \in TaskIds : roll_send(t)
    \/ \E n \in Worksheets : edit_worksheet(n)

\* They start from an empty Config worksheet.
InitSheets ==
    /\ variant \in Variants
    /\ ParseIdle
    /\ ComposeIdle
    /\ RollIdle
    /\ BotIdle

SpecSheets == InitSheets /\ [][NextSheets]_vars

\* The round command alone (old.py).
InitRound ==
    /\ variant = "old"
    /\ ParseIdle
    /\ ComposeIdle
    /\ RollIdle
    /\ InitBoard

NextRound ==
    \/ \E u \in Callers, n \in RoundNumbers : round_command(u, n)
    \/ \E t \in TaskIds : round_defer(t)
    \/ \E t \in TaskIds : round_reply(t)
    \/ \E t \in TaskIds : fail_reply(t)
    \/ \E m \in messages : delete_message(m)

SpecRound == InitRound /\ [][NextRound]_vars

-----------------------------------------------------------------------------
(* Claims about the restricted commands *)

\* The commands that are for holders of the role only.
Restricted == {"update", "round", "showsubmitted", "showanswers"}

\* The state an unauthorized invocation must leave alone.
Guarded == <<ACTIVE_SUBMISSIONS, message_id, channel_id, current_sheet, config,
             messages, posted, edits>>

\* C10: in every variant, no step taken by an invocation of a restricted
\* command by a user who does not hold the role posts or edits a chat
\* message or changes the stored ids, the configuration sheet, the active
\* worksheet or the pending submissions, and when the invocation has ended
\* it has sent the rejection message and nothing else.
C10_Unauthorized ==
    [][\A t \in TaskIds :
          (/\ tasks'[t] # tasks[t]
           /\ tasks'[t].cmd \in Restricted
           /\ ~has_permission(tasks'[t].user))
          => /\ Guarded' = Guarded
             /\ Ended(tasks'[t]) =>
                   tasks'[t].pc = "done" /\ tasks'[t].replies = <<"restricted">>]_vars

-----------------------------------------------------------------------------
(* Claims about the persisted configuration *)

\* C11: a step of an update or round command that changes the Config
\* worksheet leaves in it the id and the channel of one and the same
\* scoreboard message, and is not the step of a failure: the command does
\* not go on to its failure handler.
C11_ConfigWhole ==
    [][config' # config =>
          /\ (config'.message_id # config.message_id
                 \/ config'.channel_id # config.channel_id)
                => Msg(config'.message_id, config'.channel_id) \in messages'
          /\ \A t \in TaskIds :
                tasks'[t] # tasks[t] => tasks'[t].pc # "fail_reply"]_vars

-----------------------------------------------------------------------------
(* Claims about the round command *)

\* Invocation t is a round command that passed the permission check, and
\* this step is one of its own.
RoundSteps(t) ==
    /\ tasks[t].cmd = "round"
    /\ has_permission(tasks[t].user)
    /\ tasks'[t] # tasks[t]

\* The replies a round command has sent when it returned.
RoundReplies == {<<"switched">>, <<"not_found">>, <<"failed">>}

\* C12: a round <n> by a holder of the role for which no worksheet
\* "Round <n>" exists changes neither the active worksheet nor the persisted
\* current_round in any of its steps, and what it sends is an error (the
\* ValueError's text or the failure message); when the worksheet exists and
\* set_round returns, the active worksheet is Round <n> and current_round
\* is persisted as n, and only then does the command answer "Switched".
C12_Round ==
    [][\A t \in TaskIds : RoundSteps(t) =>
          /\ tasks[t].arg \notin Worksheets =>
                /\ current_sheet' = current_sheet
                /\ config' = config
                /\ tasks'[t].pc \in {"reply_not_found", "fail_reply", "done", "error"}
                /\ tasks'[t].pc = "done" =>
                      tasks'[t].replies \in {<<"not_found">>, <<"failed">>}
          /\ tasks'[t].pc = "reply_switched" =>
                /\ tasks[t].arg \in Worksheets
                /\ current_sheet' = tasks[t].arg
                /\ config'.current_round = tasks[t].arg
          /\ tasks'[t].pc = "done" =>
                /\ tasks'[t].replies \in RoundReplies
                /\ tasks'[t].replies[1] = "switched" => tasks[t].pc = "reply_switched"]_vars

\* A round 3 was answered with the error and a round 2 with "Switched",
\* and Round 2 is the active and the persisted round.
C12_Witness ==
    \E t, u \in TaskIds :
        /\ tasks[t].cmd = "round" /\ tasks[t].arg = 3
        /\ tasks[t].pc = "done" /\ tasks[t].replies = <<"not_found">>
        /\ tasks[u].cmd = "round" /\ tasks[u].arg = 2
        /\ tasks[u].pc = "done" /\ tasks[u].replies = <<"switched">>
        /\ current_sheet = 2
        /\ config.current_round = 2

-----------------------------------------------------------------------------
(* Claims about the answer command *)

\* The answer invocations of a user, in the order they arrived.
AnswersOf(tks, user) == {t \in TaskIds : tks[t].cmd = "answer" /\ tks[t].user = user}

\* The user's pending message is the one of the user's latest answer.
HoldsLatest(tks, submissions) ==
    \A user \in DOMAIN submissions :
        /\ AnswersOf(tks, user) # {}
        /\ \E t \in AnswersOf(tks, user) :
              /\ \A u \in AnswersOf(tks, user) : u <= t
              /\ submissions[user] = tks[t].arg

\* Invocation t arrives in this step as an answer.
AnswerStarts(t) == tasks[t].cmd = "none" /\ tasks'[t].cmd = "answer"

\* C13: the store maps each user to at most one message, which is that of
\* the user's most recent answer; it changes only when an answer arrives
\* (whoever the user is, the message replaces the user's earlier one and
\* nothing else changes) or when it is cleared; and the only thing an answer
\* sends is the acknowledgement of success.
C13_LatestAnswer ==
    [][/\ HoldsLatest(tasks', ACTIVE_SUBMISSIONS')
       /\ DOMAIN ACTIVE_SUBMISSIONS' \subseteq Users
       /\ \A t \in TaskIds : AnswerStarts(t) =>
             /\ ACTIVE_SUBMISSIONS' =
                   [u \in DOMAIN ACTIVE_SUBMISSIONS \cup {tasks'[t].user} |->
                       IF u = tasks'[t].user THEN tasks'[t].arg
                       ELSE ACTIVE_SUBMISSIONS[u]]
             /\ tasks'[t].pc = "ack"
       /\ ACTIVE_SUBMISSIONS' # ACTIVE_SUBMISSIONS =>
             \/ \E t \in TaskIds : AnswerStarts(t)
             \/ DOMAIN ACTIVE_SUBMISSIONS' = {}
       /\ \A t \in TaskIds :
             (tasks'[t].cmd = "answer" /\ tasks'[t].pc = "done")
             => tasks'[t].replies = <<"submitted">>]_vars

\* user1, who does not hold the role, answered "hi" and then "bye", user2
\* answered "hi"; the store holds "bye" for user1 and "hi" for user2.
C13_Witness ==
    /\ tasks[1].cmd = "answer" /\ tasks[1].user = "user1" /\ tasks[1].arg = "hi"
    /\ tasks[2].cmd = "answer" /\ tasks[2].user = "user1" /\ tasks[2].arg = "bye"
    /\ tasks[3].cmd = "answer" /\ tasks[3].user = "user2" /\ tasks[3].arg = "hi"
    /\ tasks[2].pc = "done"
    /\ DOMAIN ACTIVE_SUBMISSIONS = {"user1", "user2"}
    /\ ACTIVE_SUBMISSIONS["user1"] = "bye"
    /\ ACTIVE_SUBMISSIONS["user2"] = "hi"

-----------------------------------------------------------------------------
(* Claims about update's recovery *)

\* This step is one of update invocation t.
UpdateSteps(t) == tasks'[t].cmd = "update" /\ tasks'[t] # tasks[t]

\* Invocation t posts a new scoreboard message in this step and makes it the
\* target, in memory and in the Config worksheet.
PostsNewTarget(t) ==
    LET new == Msg(posted + 1, tasks[t].chan) IN
    /\ posted' = posted + 1
    /\ new \notin messages
    /\ messages' = messages \cup {new}
    /\ message_id' = new.id
    /\ channel_id' = new.channel
    /\ config'.message_id = new.id
    /\ config'.channel_id = new.channel

\* The calls of the way to a new message: the notice, channel.send with the
\* writes of the ids, and the final reply.
NewMessageSteps == {"notify", "send_new", "reply_created"}

\* The update found stored ids, and the stored channel does not resolve or
\* the stored message is not found.
Recovers(task) == task.branch \in {"nochannel", "notfound"}

\* C14: in both variants, an update that finds stored ids whose channel
\* does not resolve takes the way to a new message, and so does one whose
\* fetch or edit of the stored message raises NotFound (a stored message
\* that is gone is never taken as found); on that way only a call that
\* raises (the notice, channel.send, the writes of the ids, the final reply)
\* leads to the failure handler, and when channel.send and the writes return
\* a new message exists and the target ids in memory and in the Config
\* worksheet are its id and its channel.
C14_Recovery ==
    [][\A t \in TaskIds : UpdateSteps(t) =>
          /\ (/\ tasks[t].pc = "defer"
              /\ message_id # 0 /\ channel_id # 0
              /\ channel_id \notin channels
              /\ tasks'[t].pc # "fail_reply")
             => tasks'[t].branch = "nochannel"
          /\ (/\ tasks[t].pc \in {"fetch", "edit"}
              /\ Msg(tasks[t].target, tasks[t].chan) \notin messages)
             => tasks'[t].branch \in {"notfound", "error"}
          /\ Recovers(tasks'[t]) =>
                /\ tasks'[t].branch # tasks[t].branch
                      => tasks'[t].pc \in {"notify", "send_new"}
                /\ tasks'[t].pc = "fail_reply" => tasks[t].pc \in NewMessageSteps
                /\ tasks'[t].pc \in {"done", "error"}
                      => tasks[t].pc \in {"send_new", "reply_created", "fail_reply"}
                /\ (tasks[t].pc = "send_new" /\ tasks'[t].pc # "fail_reply")
                      => PostsNewTarget(t)]_vars

\* A first update found the stored channel gone and a second one the
\* message of the first deleted; both ended without a failure, and the
\* target ids are those of the second one's new message.
C14_Witness ==
    /\ tasks[1].cmd = "update" /\ tasks[1].branch = "nochannel" /\ tasks[1].pc = "done"
    /\ tasks[2].cmd = "update" /\ tasks[2].branch = "notfound" /\ tasks[2].pc = "done"
    /\ \A t \in {1, 2} : \A k \in DOMAIN tasks[t].replies : tasks[t].replies[k] # "failed"
    /\ posted = 3
    /\ message_id = 3
    /\ config.message_id = 3
    /\ config.channel_id = channel_id
    /\ Msg(3, channel_id) \in messages


\* C15: in both variants, an update whose fetch or edit of the stored
\* message raises an error other than NotFound goes on to post a new
\* scoreboard message; it reaches the failure handler only when a call on
\* the way to the new message raises.
C15_AnyErrorFallsBack ==
    [][\A t \in TaskIds :
          (/\ UpdateSteps(t)
           /\ tasks'[t].branch = "error"
           /\ tasks'[t].pc = "fail_reply")
          => tasks[t].pc \in NewMessageSteps]_vars

-----------------------------------------------------------------------------
(* Specification of the roll command *)

ROLL_2_1 == <<"2","-","1">>
ROLL_X == <<"x">>
RED_UPPER == <<"R","E","D">>
PURPLE == <<"p","u","r","p","l","e">>
BOBBY_ANN == <<"B","o","b","b","y"," ","A","n","n">>
ZED == <<"Z","e","d">>

\* The player rows a roll roster is made of: name, team, roll text.  The
\* roll texts are a range, a malformed text, a range whose first number
\* exceeds its second, and a missing text; one row has no name.
RollerRows ==
    {<<ANN, RED, ROLL_1_2>>, <<BOB, RED, ROLL_X>>, <<ANN_UPPER, BLUE, TEXT_50_75>>,
     <<BOB, GREEN, ROLL_2_1>>, <<CY, YELLOW, <<>>>>, <<<<>>, YELLOW, ROLL_1_2>>}

RollerLists == UNION {[1..n -> RollerRows] : n \in 0..MaxRollers}

\* The worksheet of the picked rows: the green/yellow block first, then the
\* red/blue block, rows in picked order within a block; optionally a ranking
\* row whose points cell old.py's parser raises on.
RollSheetOf(picked, bad) ==
    <<RowGreenYellow>> \o SelectSeq(picked, LAMBDA r : r[2] \in {GREEN, YELLOW})
       \o <<RowRedBlue>> \o SelectSeq(picked, LAMBDA r : r[2] \in {RED, BLUE})
       \o (IF bad THEN <<RowLeaderboard, RowSuperscript>> ELSE <<>>)

RollSheets == {RollSheetOf(picked, bad) : picked \in RollerLists, bad \in BOOLEAN}

\* The team arguments and the display names /roll is invoked with.
TeamArgs == {NoTeam, TeamArg(RED_UPPER), TeamArg(BLUE), TeamArg(GREEN),
             TeamArg(YELLOW), TeamArg(PURPLE)}
DisplayNames == {ANN, BOBBY_ANN, ZED}

InitRollCmd ==
    /\ variant \in Variants
    /\ rows \in RollSheets
    /\ pos = 1
    /\ current_section = "none"
    /\ data = EmptyData
    /\ ppc = "idle"
    /\ ComposeIdle
    /\ roll_range = <<>>
    /\ roll_bounds = <<0, 0>>
    /\ rpc = "idle"
    /\ roll_team \in TeamArgs
    /\ roll_name \in DisplayNames
    /\ roll_reply = NoReply
    /\ BotIdle

NextRollCmd == roll_command

SpecRollCmd == InitRollCmd /\ [][NextRollCmd]_vars

-----------------------------------------------------------------------------
(* Claims about the roll command *)

\* The roster the handler parsed, when the parse returned one.
Roster == ParseAll(variant, rows)

\* Player i of a team list matches the display name.
Matches(d, key, i, player_name) ==
    Contains(Lower(d[key][i].Name), Lower(player_name))

\* The player at row i of the team list number k is the first match: no row
\* of an earlier team (red, blue, green, yellow) and no earlier row of this
\* team matches.
IsFirstMatch(d, k, i, player_name) ==
    /\ Matches(d, TeamKeys[k], i, player_name)
    /\ \A j \in 1..(i - 1) : ~Matches(d, TeamKeys[k], j, player_name)
    /\ \A h \in 1..(k - 1) : \A j \in 1..Len(d[TeamKeys[h]]) :
          ~Matches(d, TeamKeys[h], j, player_name)

\* C16: a roll without a team argument is for the first roster player, in
\* the order red, blue, green, yellow and row order within a team, whose
\* lower-cased name is in the lower-cased display name: the reply carries
\* that player's team and bounds; when no player matches the reply is "not
\* found" and carries no roll.
C16_FirstMatch ==
    (roll_reply # NoReply /\ ~roll_team.given /\ ~Roster.raised) =>
        LET d == Roster.data
            found == \E k \in 1..4 : \E i \in 1..Len(d[TeamKeys[k]]) :
                        Matches(d, TeamKeys[k], i, roll_name)
        IN  /\ ~found => roll_reply = Reply("not_found", <<>>, <<>>)
            /\ found =>
                  \E k \in 1..4 : \E i \in 1..Len(d[TeamKeys[k]]) :
                     LET player == d[TeamKeys[k]][i] IN
                     /\ IsFirstMatch(d, k, i, roll_name)
                     /\ roll_reply.kind \in {"roll", "failed"}
                     /\ roll_reply.kind = "roll" =>
                           /\ roll_reply.team = player.Team
                           /\ roll_reply.team = TEAMS[k]
                           /\ Len(roll_reply.results) = 1
                           /\ roll_reply.results[1].name = player.Name
                           /\ roll_reply.results[1].min = RollBounds(player.Roll)[1]
                           /\ roll_reply.results[1].max = RollBounds(player.Roll)[2]

\* "Bobby Ann" rolled: the worksheet lists Bob (green) before ANN (blue),
\* both match, and the roll is ANN's, in blue's 50..75.
C16_Witness ==
    /\ roll_name = BOBBY_ANN
    /\ ~roll_team.given
    /\ rows = RollSheetOf(<<<<BOB, GREEN, ROLL_2_1>>, <<ANN_UPPER, BLUE, TEXT_50_75>>>>, FALSE)
    /\ roll_reply.kind = "roll"
    /\ roll_reply.team = BLUE
    /\ roll_reply.results = <<[name |-> ANN_UPPER, min |-> 50, max |-> 75, result |-> 62]>>


\* The list of the team a team argument names.
NamedTeam(d, text) == d[TeamKey(Lower(text))]

\* C17: a roll with a team argument whose lower-cased text is one of the
\* four team names and whose team list is not empty sends one result per
\* member of the list, in list order, each with min <= result <= max of
\* that member's bounds, whatever the members' roll texts are; a team
\* argument that is none of the four names is rejected as invalid.
C17_TeamRoll ==
    (roll_reply # NoReply /\ roll_team.given /\ ~Roster.raised) =>
        /\ ~InTEAMS(Lower(roll_team.text)) => roll_reply.kind = "invalid_team"
        /\ (InTEAMS(Lower(roll_team.text))
               /\ NamedTeam(Roster.data, roll_team.text) # <<>>)
           => LET team_players == NamedTeam(Roster.data, roll_team.text) IN
              /\ roll_reply.kind = "team_results"
              /\ Len(roll_reply.results) = Len(team_players)
              /\ \A i \in 1..Len(team_players) :
                    /\ roll_reply.results[i].name = team_players[i].Name
                    /\ roll_reply.results[i].min <= roll_reply.results[i].result
                    /\ roll_reply.results[i].result <= roll_reply.results[i].max

-----------------------------------------------------------------------------
(* Claims about the worksheet read *)

\* Invocation t parses in this step.
Parses(t) == tasks'[t].cmd \in {"update", "roll"} /\ tasks'[t].read # tasks[t].read

\* The round commands that answered "Switched to Round <n>!".
Switched == {r \in TaskIds : tasks[r].cmd = "round" /\ tasks[r].replies = <<"switched">>}

\* No round command is under way.
RoundsEnded == \A r \in TaskIds : tasks[r].cmd = "round" => tasks[r].pc \in {"done", "error"}

\* C18: every parse of an update or a roll reads the rows a round worksheet
\* holds at that moment (nothing read earlier is reused), and when exactly
\* one round command has succeeded so far, for round n, and every other round
\* command has ended without success, the worksheet read is Round n.
C18_ReadsActiveRound ==
    [][\A t \in TaskIds : Parses(t) =>
          /\ tasks'[t].read[2] = revision[tasks'[t].read[1]]
          /\ \A r \in Switched :
                Switched = {r} /\ RoundsEnded => tasks'[t].read[1] = tasks[r].arg]_vars

-----------------------------------------------------------------------------
(* Claims about the parser's sections *)

\* The sections whose marker test, in the claim's words, the row's first
\* cell (lower-cased) passes; none for an empty row.
MarkedSections(row) ==
    IF row = <<>> THEN {}
    ELSE LET c == FirstCell(row) IN
         {sec \in {"red_blue", "green_yellow", "leaderboard"} :
             \/ sec = "red_blue" /\ Contains(RED, c) /\ Contains(BLUE, c)
             \/ sec = "green_yellow" /\ Contains(GREEN, c) /\ Contains(YELLOW, c)
             \/ sec = "leaderboard" /\ Contains(LEADERBOARD, c)}

\* The loop is about to take a row.
AtRow == ppc = "parsing" /\ pos <= Len(rows)

\* C19: a parse starts with no section; a row whose first cell passes a
\* marker test sets the section to one it marks and adds no record, also when
\* the cell holds a column label as well (the marker test comes first); any
\* other row (header, data, short or empty) leaves the section as it is; and
\* while no section is set, no row adds a record.
C19_Sections ==
    /\ current_section = "none"
    /\ [][AtRow =>
             /\ MarkedSections(rows[pos]) # {} =>
                   current_section' \in MarkedSections(rows[pos]) /\ data' = data
             /\ MarkedSections(rows[pos]) = {} => current_section' = current_section
             /\ current_section = "none" => data' = data]_vars

\* Parsed: a player row before any marker, then a marker that also holds
\* "team", then the same player row: only the second one gave a record.
C19_Witness ==
    /\ rows = <<RowAlice, RowRedBlueTeams, RowAlice>>
    /\ ppc = "returned"
    /\ current_section = "red_blue"
    /\ data.red_team = <<ScenarioPlayer>>

-----------------------------------------------------------------------------
(* Claims about duplicate names *)

\* How many elements of a sequence of names are the given name.
Times(names, name) == Cardinality({i \in 1..Len(names) : names[i] = name})

RosterNames(d) == [i \in 1..Len(Enumerated(d)) |-> Enumerated(d)[i].Name]
ComposedNames == [i \in 1..Len(all_players) |-> all_players[i].name]
CardNames == [i \in 1..Len(render) |-> render[i].player.name]

\* The composed players that are within the MaxRecords cards.
Carded == SubSeq(ComposedNames, 1, IF Len(all_players) < MaxRecords
                                   THEN Len(all_players) ELSE MaxRecords)

\* C20: a composed player whose name equals, ignoring case, the combatant of
\* several ranking entries has the points of the last of them in row order;
\* and a name that occurs several times in the team lists occurs as often
\* among the composed players, each of which (within the first 16) has a
\* card of its own.
C20_Duplicates ==
    cpc = "done" =>
        /\ \A i \in 1..Len(all_players) :
              LET m == MatchesOf(data.leaderboard, all_players[i].name) IN
              m # {} =>
                 \E k \in m : /\ \A j \in m : j <= k
                              /\ all_players[i].points = data.leaderboard[k].Points
        /\ \A i \in 1..Len(RosterNames(data)) :
              LET name == RosterNames(data)[i] IN
              /\ Times(ComposedNames, name) = Times(RosterNames(data), name)
              /\ Times(CardNames, name) = Times(Carded, name)

\* Composed: the ranking lists "Ann" with 42 and then "ann" with 7, and the
\* two players named "ANN" both got 7 and a card each.
C20_Witness ==
    /\ cpc = "done"
    /\ Len(data.leaderboard) = 2
    /\ data.leaderboard[1].Combatant = ANN /\ data.leaderboard[1].Points = 42
    /\ data.leaderboard[2].Combatant = Lower(ANN) /\ data.leaderboard[2].Points = 7
    /\ Len(render) = 2
    /\ \A i \in 1..2 : render[i].player.name = ANN_UPPER /\ render[i].player.points = 7

-----------------------------------------------------------------------------
(* Claims about overlapping invocations *)

\* Invocation a is an answer whose acknowledgement was delivered.
Acknowledged(a) == tasks[a].cmd = "answer" /\ tasks[a].replies = <<"submitted">>

\* The submission of answer a is in the public output some showanswers has
\* delivered.
Revealed(a) ==
    \E t \in TaskIds :
        /\ tasks[t].cmd = "showanswers"
        /\ tasks[t].public # <<>>
        /\ \E k \in 1..Len(tasks[t].shuffled) :
              tasks[t].shuffled[k] = <<tasks[a].user, tasks[a].arg>>

\* The submission of answer a is the one the store holds for its user.
Pending(a) ==
    /\ tasks[a].user \in DOMAIN ACTIVE_SUBMISSIONS
    /\ ACTIVE_SUBMISSIONS[tasks[a].user] = tasks[a].arg

\* The user of answer a has submitted again since.
Replaced(a) ==
    \E b \in TaskIds : b > a /\ tasks[b].cmd = "answer" /\ tasks[b].user = tasks[a].user

\* C21: under every interleaving of answer and showanswers, an acknowledged
\* submission (that its user has not replaced) is pending in the store or
\* was in the public output of a showanswers.
C21_NoneLost ==
    \A a \in TaskIds : Acknowledged(a) => Pending(a) \/ Revealed(a) \/ Replaced(a)


\* Update t sends a new scoreboard message in this step.
Creates(t) == tasks[t].cmd = "update" /\ tasks[t].pc = "send_new" /\ posted' = posted + 1

\* Update u has sent a new scoreboard message and has not ended yet.
HasCreated(u) == tasks[u].cmd = "update" /\ tasks[u].pc = "reply_created"

\* Every invocation that arrived has ended.
AllEnded == \A t \in TaskIds : tasks[t].cmd # "none" => Ended(tasks[t])

\* C22: while an update that has created a new scoreboard message is still
\* running, no other update creates one (overlapping updates create at most
\* one message); and once all invocations have ended after a message was
\* created, the stored message id and channel id are those of the message
\* created last.
C22_OneNewMessage ==
    /\ [][\A t, u \in TaskIds : (t # u /\ HasCreated(u) /\ tasks'[t] # tasks[t]) => ~Creates(t)]_vars
    /\ [](AllEnded /\ posted > 0 =>
             /\ message_id = posted
             /\ \A m \in messages : m.id = posted => channel_id = m.channel)


\* The configuration the bot holds in memory.
InMemory == [message_id |-> message_id, channel_id |-> channel_id,
             current_round |-> current_sheet]

\* Invocation t, an update or a round command, ends in this step.
Completes(t) ==
    /\ tasks[t].cmd \in {"update", "round"}
    /\ ~Ended(tasks[t])
    /\ Ended(tasks'[t])

\* C23: when an update or a round command ends, with success or with the
\* failure message, the message id, channel id and active round held in
\* memory are the ones stored in the configuration sheet.
C23_MemoryIsPersisted ==
    [][\A t \in TaskIds : Completes(t) => InMemory' = config']_vars


=============================================================================
